---- MODULE Spec2Model ----
(***************************************************************************)
(* Model of go-naive-queryfilters (package naivequeryfilters).             *)
(*                                                                         *)
(* Build(filterAllowedColumnNames, getParams) is modelled step by step:    *)
(* getOrderedGetParams, the entry of getValidQueryParams, one action per   *)
(* iteration of its loop, its return, and buildQueryFilters.  A caller     *)
(* may then run Build again on the same arguments (Rerun).                 *)
(*                                                                         *)
(* A Go string is a sequence of one-character strings, so that             *)
(* strings.Split, strings.Contains, slices.Sort and fmt.Sprintf are        *)
(* computed on characters.  Parameter values are never inspected by the    *)
(* code and stay atoms.                                                    *)
(*                                                                         *)
(* The ordered map of github.com/kirill-scherba/omap is a sequence of      *)
(* [Key, Value] records: Set appends a new key at the back and updates     *)
(* the value of an existing key where it stands, Pairs returns a copy of   *)
(* the records in order, Del removes a key.  omap.New never fails here.    *)
(***************************************************************************)
EXTENDS Integers, Sequences, FiniteSets, TLC

VARIABLES
    filterAllowedColumnNames, \* argument of Build: the whitelist
    getParams,                \* argument of Build: url.Values
    pc,                       \* position inside Build
    orderedGetParams,         \* omap built by getOrderedGetParams
    pairs,                    \* getParams.Pairs() of the loop in getValidQueryParams
    i,                        \* index of the loop's current pair
    validParams,              \* omap "<db column name>: <filterParam>"
    removedParams,            \* url.Values of the parameters not in the whitelist
    result,                   \* what Build returned
    prev                      \* what the previous run of Build returned, if any

vars == <<filterAllowedColumnNames, getParams, pc, orderedGetParams, pairs, i,
          validParams, removedParams, result, prev>>

----------------------------------------------------------------------------
(* Bounds of the model *)

\* largest number of keys of the raw-parameter map
MaxParams == 2
\* largest number of values of one raw parameter
MaxVals == 2

----------------------------------------------------------------------------
(* Constants of the package *)

OPERATOR_SEPARATOR == <<"_", "_">>
OPERATOR_IN == <<"i", "n">>
OPERATOR_NOT_IN == <<"n", "o", "t", "_", "i", "n">>
OPERATOR_LIKE == <<"l", "i", "k", "e">>

QUERY_TOKEN_IN == <<"I", "N">>
QUERY_TOKEN_NOT_IN == <<"N", "O", "T", " ", "I", "N">>
QUERY_TOKEN_EQUALS == <<"=">>
QUERY_TOKEN_NOT_EQUALS == <<"<", ">">>
QUERY_TOKEN_LIKE == <<"L", "I", "K", "E">>

OPERATORS ==
    [op \in {OPERATOR_IN, OPERATOR_NOT_IN, OPERATOR_LIKE} |->
        IF op = OPERATOR_IN THEN QUERY_TOKEN_IN
        ELSE IF op = OPERATOR_NOT_IN THEN QUERY_TOKEN_NOT_IN
        ELSE QUERY_TOKEN_LIKE]

----------------------------------------------------------------------------
(* Errors.  NoError is Go's nil error. *)

NoString == <<>>

NoError == [kind |-> "nil", Operator |-> NoString, ParamName |-> NoString]

errAttemptedToPassEmptyFilteringParams ==
    [kind |-> "AttemptedEmptyFilteringParams", Operator |-> NoString, ParamName |-> NoString]

ErrWrongQueryParamName(paramName) ==
    [kind |-> "WrongQueryParamName", Operator |-> NoString, ParamName |-> paramName]

ErrWrongOperator(operator, paramName) ==
    [kind |-> "WrongOperator", Operator |-> operator, ParamName |-> paramName]

ErrEmptyValues ==
    [kind |-> "passed empty values to filterParam", Operator |-> NoString, ParamName |-> NoString]

ErrLikeSingleValue ==
    [kind |-> "like operator only supports single value", Operator |-> NoString, ParamName |-> NoString]

----------------------------------------------------------------------------
(* Go strings *)

LowerLetters == <<"a", "b", "c", "d", "e", "f", "g", "h", "i", "j", "k", "l", "m",
                  "n", "o", "p", "q", "r", "s", "t", "u", "v", "w", "x", "y", "z">>

UpperLetters == <<"A", "B", "C", "D", "E", "F", "G", "H", "I", "J", "K", "L", "M",
                  "N", "O", "P", "Q", "R", "S", "T", "U", "V", "W", "X", "Y", "Z">>

\* the byte of a character, for the characters parameter keys are made of
ByteOf(ch) ==
    IF ch = "." THEN 46
    ELSE IF ch = "1" THEN 49
    ELSE IF ch = "_" THEN 95
    ELSE 96 + (CHOOSE n \in 1..Len(LowerLetters) : LowerLetters[n] = ch)

\* a < b on Go strings: bytewise lexicographic
StringLess(a, b) ==
    \E n \in 1..(Len(b)) :
        /\ n <= Len(a) + 1
        /\ \A m \in 1..(n - 1) : a[m] = b[m]
        /\ \/ n = Len(a) + 1
           \/ ByteOf(a[n]) < ByteOf(b[n])

\* strings.Index, 1-based; 0 when sep does not occur
IndexOf(s, sep) ==
    LET at == {n \in 1..(Len(s) - Len(sep) + 1) : SubSeq(s, n, n + Len(sep) - 1) = sep}
    IN  IF at = {} THEN 0 ELSE CHOOSE n \in at : \A m \in at : n <= m

Contains(s, sep) == IndexOf(s, sep) # 0

RECURSIVE Split(_, _)
Split(s, sep) ==
    LET m == IndexOf(s, sep)
    IN  IF m = 0 THEN <<s>>
        ELSE <<SubSeq(s, 1, m - 1)>> \o Split(SubSeq(s, m + Len(sep), Len(s)), sep)

ToUpper(s) ==
    [n \in 1..Len(s) |->
        IF \E l \in 1..Len(LowerLetters) : LowerLetters[l] = s[n]
        THEN UpperLetters[CHOOSE l \in 1..Len(LowerLetters) : LowerLetters[l] = s[n]]
        ELSE s[n]]

RECURSIVE InsertSorted(_, _)
InsertSorted(x, sorted) ==
    IF sorted = <<>> THEN <<x>>
    ELSE IF StringLess(x, Head(sorted)) THEN <<x>> \o sorted
    ELSE <<Head(sorted)>> \o InsertSorted(x, Tail(sorted))

\* a mutation: the keys stay in the order the map enumerated them
SlicesSortNot(keys) == keys

RECURSIVE SlicesSort(_)
SlicesSort(keys) ==
    IF keys = <<>> THEN <<>>
    ELSE InsertSorted(Head(keys), SlicesSort(Tail(keys)))

----------------------------------------------------------------------------
(* The ordered map *)

OmapKeys(om) == {om[n].Key : n \in 1..Len(om)}

OmapSet(om, key, value) ==
    IF key \in OmapKeys(om)
    THEN [n \in 1..Len(om) |-> IF om[n].Key = key THEN [Key |-> key, Value |-> value] ELSE om[n]]
    ELSE Append(om, [Key |-> key, Value |-> value])

OmapDel(om, key) == SelectSeq(om, LAMBDA p : p.Key # key)

----------------------------------------------------------------------------
(* filterParam *)

ZeroFilterParam == [Name |-> NoString, QueryToken |-> NoString, Values |-> <<>>]

\* a mutation: several values are accepted under the like operator
newFilterParamLikeAny(name, operator, values) ==
    IF Len(values) = 0 THEN [fp |-> ZeroFilterParam, err |-> ErrEmptyValues]
    ELSE IF operator = NoString
    THEN [fp |-> [Name |-> name, QueryToken |-> QUERY_TOKEN_IN, Values |-> values], err |-> NoError]
    ELSE IF operator \notin DOMAIN OPERATORS
    THEN [fp |-> ZeroFilterParam, err |-> ErrWrongOperator(operator, name)]
    ELSE [fp |-> [Name |-> name, QueryToken |-> OPERATORS[operator], Values |-> values],
          err |-> NoError]

newFilterParam(name, operator, values) ==
    IF Len(values) = 0 THEN [fp |-> ZeroFilterParam, err |-> ErrEmptyValues]
    ELSE IF operator = NoString
    THEN [fp |-> [Name |-> name, QueryToken |-> QUERY_TOKEN_IN, Values |-> values], err |-> NoError]
    ELSE IF operator = OPERATOR_LIKE /\ Len(values) > 1
    THEN [fp |-> ZeroFilterParam, err |-> ErrLikeSingleValue]
    ELSE IF operator \notin DOMAIN OPERATORS
    THEN [fp |-> ZeroFilterParam, err |-> ErrWrongOperator(operator, name)]
    ELSE [fp |-> [Name |-> name, QueryToken |-> OPERATORS[operator], Values |-> values],
          err |-> NoError]

RECURSIVE Placeholders(_)
Placeholders(n) == IF n = 0 THEN <<>> ELSE <<"?", ",">> \o Placeholders(n - 1)

\* a mutation: the loop misses the last value
buildPhraseShort(columnName, operatorName, values) ==
    LET phrase == columnName \o <<" ">> \o ToUpper(operatorName) \o <<" ", "(">>
                    \o Placeholders(Len(values) - 1)
    IN  SubSeq(phrase, 1, Len(phrase) - 1) \o <<")">>

buildPhrase(columnName, operatorName, values) ==
    LET phrase == columnName \o <<" ">> \o ToUpper(operatorName) \o <<" ", "(">>
                    \o Placeholders(Len(values))
    IN  SubSeq(phrase, 1, Len(phrase) - 1) \o <<")">>

\* a mutation: a single value is not collapsed to = or <>
SqlNoCollapse(fp) ==
    IF fp.QueryToken = QUERY_TOKEN_LIKE
    THEN <<"L", "O", "W", "E", "R", "(">> \o fp.Name \o <<")", " ">> \o QUERY_TOKEN_LIKE
            \o <<" ", "C", "O", "N", "C", "A", "T", "(", "'", "%", "'", ",", " ", "?",
                 ",", " ", "'", "%", "'", ")">>
    ELSE buildPhrase(fp.Name, fp.QueryToken, fp.Values)

Sql(fp) ==
    IF Len(fp.Values) = 1 /\ fp.QueryToken = QUERY_TOKEN_IN
    THEN fp.Name \o <<" ">> \o QUERY_TOKEN_EQUALS \o <<" ", "?">>
    ELSE IF Len(fp.Values) = 1 /\ fp.QueryToken = QUERY_TOKEN_NOT_IN
    THEN fp.Name \o <<" ">> \o QUERY_TOKEN_NOT_EQUALS \o <<" ", "?">>
    ELSE IF fp.QueryToken = QUERY_TOKEN_LIKE
    THEN <<"L", "O", "W", "E", "R", "(">> \o fp.Name \o <<")", " ">> \o QUERY_TOKEN_LIKE
            \o <<" ", "C", "O", "N", "C", "A", "T", "(", "'", "%", "'", ",", " ", "?",
                 ",", " ", "'", "%", "'", ")">>
    ELSE buildPhrase(fp.Name, fp.QueryToken, fp.Values)

splitParamName(paramName, paramValues) ==
    LET res == Split(paramName, OPERATOR_SEPARATOR)
    IN  IF ~Contains(paramName, OPERATOR_SEPARATOR)
        THEN newFilterParam(res[1], NoString, paramValues)
        ELSE IF Len(res) # 2
        THEN [fp |-> ZeroFilterParam, err |-> ErrWrongQueryParamName(paramName)]
        ELSE IF res[2] \notin DOMAIN OPERATORS
        THEN [fp |-> ZeroFilterParam, err |-> ErrWrongOperator(res[2], paramName)]
        ELSE newFilterParam(res[1], res[2], paramValues)

----------------------------------------------------------------------------
(* The whitelist: AllowedColumns maps a column name to a function on names. *)
(* The functions of the tests and of the example either return their       *)
(* argument or a fixed name.                                               *)

ReturnArgument == [kind |-> "s", name |-> NoString]
ReturnName(name) == [kind |-> "name", name |-> name]

Call(colNameConverterFunc, s) ==
    IF colNameConverterFunc.kind = "s" THEN s ELSE colNameConverterFunc.name

----------------------------------------------------------------------------
(* Steps of Build *)

EmptyValues == [isNil |-> FALSE, m |-> <<>>]
NilValues == [isNil |-> TRUE, m |-> <<>>]

\* url.Values with one more entry
ValuesPut(values, key, list) ==
    [isNil |-> FALSE,
     m |-> [k \in (DOMAIN values.m) \cup {key} |-> IF k = key THEN list ELSE values.m[k]]]

\* Filter{}
ZeroFilter == [SqlFilters |-> NoString, PlaceholderValues |-> <<>>]

NoResult == [Filter |-> ZeroFilter, Invalid |-> NilValues, Err |-> NoError]

\* the keys of a map in each order a range over the map may enumerate them
Enumerations(m) ==
    {e \in [1..Cardinality(DOMAIN m) -> DOMAIN m] :
        \A a, b \in DOMAIN e : a # b => e[a] # e[b]}

\* getOrderedGetParams, for the keys enumerated as getParamsKeys
getOrderedGetParams(params, getParamsKeys) ==
    LET sorted == SlicesSort(getParamsKeys)
        Fill[n \in 0..Len(sorted)] ==
            IF n = 0 THEN <<>> ELSE OmapSet(Fill[n - 1], sorted[n], params[sorted[n]])
    IN  Fill[Len(sorted)]

\* a mutation: the precondition on the number of parameters is not checked
IsEmptyParamsNever(om) == FALSE

\* getValidQueryParams: getParams.Len() == 0
IsEmptyParams(om) == Len(om) = 0

\* a mutation: the parameter is recorded under its column name, not its key
partitionParamByColumn(allowed, valid, removed, querystringFilterParamName, filterParamValues, fp) ==
    IF fp.Name \in DOMAIN allowed
    THEN LET named == [fp EXCEPT !.Name = Call(allowed[fp.Name], fp.Name)]
         IN  [valid |-> OmapSet(valid, named.Name, named), removed |-> removed]
    ELSE [valid |-> valid,
          removed |-> ValuesPut(removed, fp.Name, filterParamValues)]

\* a mutation: a parameter that is not in the whitelist is kept as valid too
partitionParamKeepAll(allowed, valid, removed, querystringFilterParamName, filterParamValues, fp) ==
    IF fp.Name \in DOMAIN allowed
    THEN LET named == [fp EXCEPT !.Name = Call(allowed[fp.Name], fp.Name)]
         IN  [valid |-> OmapSet(valid, named.Name, named), removed |-> removed]
    ELSE [valid |-> OmapSet(valid, fp.Name, fp),
          removed |-> ValuesPut(removed, querystringFilterParamName, filterParamValues)]

\* getValidQueryParams: the whitelist branch of one loop iteration
partitionParam(allowed, valid, removed, querystringFilterParamName, filterParamValues, fp) ==
    IF fp.Name \in DOMAIN allowed
    THEN LET named == [fp EXCEPT !.Name = Call(allowed[fp.Name], fp.Name)]
         IN  [valid |-> OmapSet(valid, named.Name, named), removed |-> removed]
    ELSE [valid |-> valid,
          removed |-> ValuesPut(removed, querystringFilterParamName, filterParamValues)]

buildQueryFilters(valid) ==
    LET Loop[n \in 0..Len(valid)] ==
            IF n = 0 THEN ZeroFilter
            ELSE [SqlFilters |->
                      Loop[n - 1].SqlFilters \o Sql(valid[n].Value)
                          \o (IF n < Len(valid) THEN <<" ", "A", "N", "D", " ">> ELSE <<>>),
                  PlaceholderValues |->
                      Loop[n - 1].PlaceholderValues \o valid[n].Value.Values]
    IN  Loop[Len(valid)]

----------------------------------------------------------------------------
(* Arguments of Build *)

ColC == <<"c">>
ColC1 == <<"c", "1">>
ColD == <<"d">>

\* the whitelist of the tests: two columns, names unchanged
WhitelistPlain == [col \in {ColC, ColC1} |-> ReturnArgument]

\* the whitelist of the example: one column renamed to a qualified name
WhitelistQualified ==
    [col \in {ColC, ColD} |->
        IF col = ColC THEN ReturnName(<<"t", ".", "c">>) ELSE ReturnArgument]

\* an alias: column c is renamed to d, which is a column of its own
WhitelistAlias ==
    [col \in {ColC, ColD} |-> IF col = ColC THEN ReturnName(ColD) ELSE ReturnArgument]

Whitelists == {WhitelistPlain, WhitelistQualified, WhitelistAlias}

RawKeys ==
    { ColC,
      ColC \o OPERATOR_SEPARATOR \o OPERATOR_IN,
      ColC \o OPERATOR_SEPARATOR \o OPERATOR_NOT_IN,
      ColC \o OPERATOR_SEPARATOR \o OPERATOR_LIKE,
      ColC1,
      ColC1 \o OPERATOR_SEPARATOR \o OPERATOR_LIKE,
      ColD,
      ColD \o OPERATOR_SEPARATOR \o <<"b", "t">>,
      ColC \o OPERATOR_SEPARATOR \o OPERATOR_IN \o OPERATOR_SEPARATOR \o OPERATOR_IN }

\* the value lists "1", "2", ... of each length up to MaxVals
ValueLists == {[n \in 1..len |-> ToString(n)] : len \in 0..MaxVals}

----------------------------------------------------------------------------
(* The state machine *)

Init ==
    /\ filterAllowedColumnNames \in Whitelists
    /\ \E keys \in SUBSET RawKeys :
          /\ Cardinality(keys) <= MaxParams
          /\ getParams \in [keys -> ValueLists]
    /\ pc = "Build"
    /\ orderedGetParams = <<>>
    /\ pairs = <<>>
    /\ i = 0
    /\ validParams = <<>>
    /\ removedParams = NilValues
    /\ result = NoResult
    /\ prev = <<>>

\* Build: orderedGetParams, err := getOrderedGetParams(getParams)
GetOrderedGetParams ==
    /\ pc = "Build"
    /\ \E getParamsKeys \in Enumerations(getParams) :
          orderedGetParams' = getOrderedGetParams(getParams, getParamsKeys)
    /\ pc' = "getValidQueryParams"
    /\ UNCHANGED <<filterAllowedColumnNames, getParams, pairs, i, validParams,
                   removedParams, result, prev>>

\* getValidQueryParams up to its loop; with no parameter Build returns the error
EnterGetValidQueryParams ==
    /\ pc = "getValidQueryParams"
    /\ IF IsEmptyParams(orderedGetParams)
       THEN /\ result' = [Filter |-> ZeroFilter, Invalid |-> NilValues,
                          Err |-> errAttemptedToPassEmptyFilteringParams]
            /\ pc' = "done"
            /\ UNCHANGED <<pairs, i, removedParams>>
       ELSE /\ removedParams' = EmptyValues
            /\ pairs' = orderedGetParams
            /\ i' = 1
            /\ pc' = "loop"
            /\ UNCHANGED result
    /\ UNCHANGED <<filterAllowedColumnNames, getParams, orderedGetParams, validParams, prev>>

\* one iteration of the loop of getValidQueryParams; on an error Build returns
\* Filter{}, the parameters removed so far and the error
ScanParam ==
    /\ pc = "loop"
    /\ i <= Len(pairs)
    /\ LET querystringFilterParamName == pairs[i].Key
           filterParamValues == pairs[i].Value
           split == splitParamName(querystringFilterParamName, filterParamValues)
           part == partitionParam(filterAllowedColumnNames, validParams, removedParams,
                                  querystringFilterParamName, filterParamValues, split.fp)
       IN  IF split.err # NoError
           THEN /\ result' = [Filter |-> ZeroFilter, Invalid |-> removedParams,
                              Err |-> split.err]
                /\ pc' = "done"
                /\ UNCHANGED <<orderedGetParams, i, validParams, removedParams>>
           ELSE /\ validParams' = part.valid
                /\ removedParams' = part.removed
                /\ orderedGetParams' = OmapDel(orderedGetParams, querystringFilterParamName)
                /\ i' = i + 1
                /\ UNCHANGED <<pc, result>>
    /\ UNCHANGED <<filterAllowedColumnNames, getParams, pairs, prev>>

\* the end of getValidQueryParams: an empty removedParams becomes nil
ReturnGetValidQueryParams ==
    /\ pc = "loop"
    /\ i > Len(pairs)
    /\ removedParams' = IF DOMAIN removedParams.m = {} THEN NilValues ELSE removedParams
    /\ pc' = "buildQueryFilters"
    /\ UNCHANGED <<filterAllowedColumnNames, getParams, orderedGetParams, pairs, i,
                   validParams, result, prev>>

\* Build: return buildQueryFilters(validParams), invalidParams, nil
BuildQueryFilters ==
    /\ pc = "buildQueryFilters"
    /\ result' = [Filter |-> buildQueryFilters(validParams), Invalid |-> removedParams,
                  Err |-> NoError]
    /\ pc' = "done"
    /\ UNCHANGED <<filterAllowedColumnNames, getParams, orderedGetParams, pairs, i,
                   validParams, removedParams, prev>>

\* the caller keeps what Build returned and calls it again on the same arguments
Rerun ==
    /\ pc = "done"
    /\ prev' = <<result>>
    /\ pc' = "Build"
    /\ orderedGetParams' = <<>>
    /\ pairs' = <<>>
    /\ i' = 0
    /\ validParams' = <<>>
    /\ removedParams' = NilValues
    /\ result' = NoResult
    /\ UNCHANGED <<filterAllowedColumnNames, getParams>>

Next ==
    \/ GetOrderedGetParams
    \/ EnterGetValidQueryParams
    \/ ScanParam
    \/ ReturnGetValidQueryParams
    \/ BuildQueryFilters
    \/ Rerun

Spec == Init /\ [][Next]_vars

----------------------------------------------------------------------------
(* Vocabulary of the properties, stated on the arguments and on what Build *)
(* returned, apart from the operators of the code above.                   *)

Succeeded == pc = "done" /\ result.Err = NoError

Failed == pc = "done" /\ result.Err # NoError

RawKeySet == DOMAIN getParams

HasSeparator(k) == \E n \in 1..(Len(k) - 1) : k[n] = "_" /\ k[n + 1] = "_"

SeparatorCount(k) == Cardinality({n \in 1..(Len(k) - 1) : k[n] = "_" /\ k[n + 1] = "_"})

FirstSeparator(k) ==
    CHOOSE n \in 1..(Len(k) - 1) :
        /\ k[n] = "_" /\ k[n + 1] = "_"
        /\ \A m \in 1..(n - 1) : ~(k[m] = "_" /\ k[m + 1] = "_")

\* the part of a key before "__"
ColumnOf(k) == IF HasSeparator(k) THEN SubSeq(k, 1, FirstSeparator(k) - 1) ELSE k

\* the part of a key after its first "__"
TokenOf(k) == SubSeq(k, FirstSeparator(k) + 2, Len(k))

KnownTokens == {<<"i", "n">>, <<"n", "o", "t", "_", "i", "n">>, <<"l", "i", "k", "e">>}

IsLikeKey(k) == HasSeparator(k) /\ TokenOf(k) = <<"l", "i", "k", "e">>

WellFormed(k) ==
    /\ Len(getParams[k]) >= 1
    /\ HasSeparator(k) => TokenOf(k) \in KnownTokens
    /\ IsLikeKey(k) => Len(getParams[k]) = 1

Whitelisted(k) == ColumnOf(k) \in DOMAIN filterAllowedColumnNames

WhitelistedKeys == {k \in RawKeySet : Whitelisted(k)}

RejectedKeys == {k \in RawKeySet : ~Whitelisted(k)}

\* the final column name of a whitelisted key
FinalName(k) ==
    LET f == filterAllowedColumnNames[ColumnOf(k)]
    IN  IF f.kind = "s" THEN ColumnOf(k) ELSE f.name

\* the keys of a set in ascending lexicographic order
Ascending(keys) ==
    CHOOSE s \in [1..Cardinality(keys) -> keys] :
        \A a, b \in 1..Cardinality(keys) : a < b => StringLess(s[a], s[b])

RECURSIVE Flatten(_)
Flatten(lists) == IF lists = <<>> THEN <<>> ELSE Head(lists) \o Flatten(Tail(lists))

\* a sequence without the later occurrences of each of its elements
FirstOccurrences(seq) ==
    LET Keep[n \in 0..Len(seq)] ==
            IF n = 0 THEN <<>>
            ELSE IF \E m \in 1..(n - 1) : seq[m] = seq[n] THEN Keep[n - 1]
            ELSE Append(Keep[n - 1], seq[n])
    IN  Keep[Len(seq)]

CountChar(s, ch) == Cardinality({n \in 1..Len(s) : s[n] = ch})

\* the predicates of a fragment: its parts between " AND "
Predicates(fragment) ==
    IF fragment = <<>> THEN <<>> ELSE Split(fragment, <<" ", "A", "N", "D", " ">>)

\* the column a predicate is about: "<column> <token> ..." or "LOWER(<column>) ..."
PredicateColumn(p) ==
    IF Len(p) >= 6 /\ SubSeq(p, 1, 6) = <<"L", "O", "W", "E", "R", "(">>
    THEN SubSeq(p, 7, IndexOf(p, <<")">>) - 1)
    ELSE SubSeq(p, 1, IndexOf(p, <<" ">>) - 1)

FragmentColumns(fragment) ==
    [n \in 1..Len(Predicates(fragment)) |-> PredicateColumn(Predicates(fragment)[n])]

\* "?,?,...,?" with n placeholders
PlaceholderList(n) == [j \in 1..(2 * n - 1) |-> IF j % 2 = 1 THEN "?" ELSE ","]

IsAscendingByName(names) ==
    \A a, b \in 1..Len(names) : a < b => StringLess(names[a], names[b])

----------------------------------------------------------------------------
(* C1 *)

\* C1: whenever Build returns no error, the number of ? placeholders in
\* Filter.SqlFilters equals the number of Filter.PlaceholderValues.
C1_PlaceholderCount ==
    Succeeded =>
        CountChar(result.Filter.SqlFilters, "?") = Len(result.Filter.PlaceholderValues)

\* Build succeeded with several predicates, one of them a list of placeholders
C1_Witness ==
    /\ Succeeded
    /\ Len(Predicates(result.Filter.SqlFilters)) >= 2
    /\ CountChar(result.Filter.SqlFilters, ",") >= 1
    /\ CountChar(result.Filter.SqlFilters, "?") >= 3

----------------------------------------------------------------------------
(* C2 *)

----------------------------------------------------------------------------
(* C3 *)

\* C3: a second run of Build on the same whitelist and raw parameters returns
\* the same fragment, bind values, rejected parameters and error as the first,
\* whatever order the keys of the raw map are enumerated in.
C3_Deterministic == (pc = "done" /\ prev # <<>>) => result = prev[1]

\* two runs are over, on a map of several keys that gave several predicates
C3_Witness ==
    /\ Succeeded
    /\ prev # <<>>
    /\ Cardinality(RawKeySet) >= 2
    /\ Len(Predicates(result.Filter.SqlFilters)) >= 2

----------------------------------------------------------------------------
(* C4 *)

\* C4: whenever Build returns no error, the rejected parameters are exactly the
\* raw entries whose column is not in the whitelist, under their raw key and
\* with their values; no key with a whitelisted column is among them, and each
\* predicate and its bind values come from a raw key with a whitelisted column.
C4_Rejected ==
    Succeeded =>
        /\ DOMAIN result.Invalid.m = RejectedKeys
        /\ \A k \in RejectedKeys : result.Invalid.m[k] = getParams[k]
        /\ \A k \in WhitelistedKeys : k \notin DOMAIN result.Invalid.m
        /\ result.Invalid.isNil <=> RejectedKeys = {}
        /\ \A n \in 1..Len(FragmentColumns(result.Filter.SqlFilters)) :
              \E k \in WhitelistedKeys :
                  FragmentColumns(result.Filter.SqlFilters)[n] = FinalName(k)
        /\ \E chosen \in SUBSET WhitelistedKeys :
              /\ Cardinality(chosen) = Len(Predicates(result.Filter.SqlFilters))
              /\ \E order \in Enumerations([k \in chosen |-> TRUE]) :
                    result.Filter.PlaceholderValues
                        = Flatten([n \in 1..Len(order) |-> getParams[order[n]]])

\* Build succeeded, rejecting a key with an operator and keeping another
C4_Witness ==
    /\ Succeeded
    /\ \E k \in RejectedKeys : HasSeparator(k)
    /\ WhitelistedKeys # {}
    /\ result.Filter.SqlFilters # <<>>

----------------------------------------------------------------------------
(* C5 *)

\* the parameter whose scan made Build return an error
FailingKey == pairs[i].Key

ScanFailed == Failed /\ result.Err # errAttemptedToPassEmptyFilteringParams

\* C5 as claimed: a raw parameter whose column is not in the whitelist never
\* makes Build return an error, whatever its operator suffix and the number of
\* its values (here for the numbers a query string gives, one or more).
C5_RejectedNeverFails ==
    (ScanFailed /\ Len(getParams[FailingKey]) >= 1) => Whitelisted(FailingKey)

\* C5 as amended: a raw parameter whose column is not in the whitelist and that
\* is well formed never makes Build return an error; once scanned it is among
\* the removed parameters under its raw key and the scan goes on.
C5_WellFormedRejectedNeverFails ==
    /\ ScanFailed => ~WellFormed(FailingKey)
    /\ pc \in {"loop", "buildQueryFilters", "done"} =>
          \A n \in 1..Len(pairs) :
              (n < i /\ ~Whitelisted(pairs[n].Key)) =>
                  /\ pairs[n].Key \in DOMAIN removedParams.m
                  /\ removedParams.m[pairs[n].Key] = pairs[n].Value

\* the scan went on after a parameter with an operator that is not in the whitelist
C5_Witness ==
    /\ pc = "loop"
    /\ i = 2
    /\ Len(pairs) >= 2
    /\ ~Whitelisted(pairs[1].Key)
    /\ HasSeparator(pairs[1].Key)

----------------------------------------------------------------------------
(* C6 *)

\* the fragment the claim gives for one parameter on column col with n values
C6_Expected(k, col, n) ==
    IF k = col \/ k = col \o <<"_", "_", "i", "n">>
    THEN IF n = 1 THEN col \o <<" ", "=", " ", "?">>
         ELSE col \o <<" ", "I", "N", " ", "(">> \o PlaceholderList(n) \o <<")">>
    ELSE IF k = col \o <<"_", "_", "n", "o", "t", "_", "i", "n">>
    THEN IF n = 1 THEN col \o <<" ", "<", ">", " ", "?">>
         ELSE col \o <<" ", "N", "O", "T", " ", "I", "N", " ", "(">> \o PlaceholderList(n)
                \o <<")">>
    ELSE <<"L", "O", "W", "E", "R", "(">> \o col
            \o <<")", " ", "L", "I", "K", "E", " ", "C", "O", "N", "C", "A", "T", "(",
                 "'", "%", "'", ",", " ", "?", ",", " ", "'", "%", "'", ")">>

\* one well-formed parameter on a whitelisted column whose name is unchanged
C6_Case(k) ==
    /\ RawKeySet = {k}
    /\ Whitelisted(k)
    /\ filterAllowedColumnNames[ColumnOf(k)].kind = "s"
    /\ WellFormed(k)

\* C6: for one whitelisted parameter, name unchanged, with n >= 1 values: col and
\* col__in give col = ? (n = 1) or col IN (?,...,?), col__not_in gives col <> ?
\* or col NOT IN (?,...,?), col__like (n = 1) gives LOWER(col) LIKE
\* CONCAT('%', ?, '%'); the bind values are the values in their order.
C6_SingleParameter ==
    pc = "done" =>
        \A k \in RawKeySet :
            C6_Case(k) =>
                /\ result.Err = NoError
                /\ result.Filter.SqlFilters
                      = C6_Expected(k, ColumnOf(k), Len(getParams[k]))
                /\ result.Filter.PlaceholderValues = getParams[k]

\* Build returned for a single col__not_in parameter with one value
C6_Witness ==
    /\ pc = "done"
    /\ \E k \in RawKeySet :
          /\ C6_Case(k)
          /\ HasSeparator(k)
          /\ TokenOf(k) = <<"n", "o", "t", "_", "i", "n">>
          /\ Len(getParams[k]) = 1

----------------------------------------------------------------------------
(* C7 *)

C7_Malformed(k) ==
    \/ SeparatorCount(k) > 1
    \/ HasSeparator(k) /\ TokenOf(k) \notin KnownTokens
    \/ IsLikeKey(k) /\ Len(getParams[k]) > 1

\* C7: if some raw key holds "__" more than once, carries an unknown operator
\* token, or is a __like key with several values, Build returns an error and an
\* empty Filter, whatever the whitelist and the other parameters.
C7_MalformedFails ==
    (pc = "done" /\ \E k \in RawKeySet : C7_Malformed(k)) =>
        /\ result.Err # NoError
        /\ result.Filter.SqlFilters = <<>>
        /\ result.Filter.PlaceholderValues = <<>>

\* Build returned for a __like key with two values beside a whitelisted parameter
C7_Witness ==
    /\ pc = "done"
    /\ \E k \in RawKeySet : IsLikeKey(k) /\ Len(getParams[k]) > 1
    /\ \E k \in WhitelistedKeys : ~C7_Malformed(k) /\ WellFormed(k)
    /\ validParams # <<>>

----------------------------------------------------------------------------
(* C8 *)

\* C8: Build returns AttemptedEmptyFilteringParams exactly when the raw map has
\* no key; a raw map of well-formed parameters all rejected by the whitelist
\* gives no error, an empty fragment, no bind value and every entry rejected.
C8_EmptyInput ==
    pc = "done" =>
        /\ result.Err = errAttemptedToPassEmptyFilteringParams <=> RawKeySet = {}
        /\ (/\ RawKeySet # {}
            /\ \A k \in RawKeySet : WellFormed(k) /\ ~Whitelisted(k)) =>
              /\ result.Err = NoError
              /\ result.Filter.SqlFilters = <<>>
              /\ result.Filter.PlaceholderValues = <<>>
              /\ DOMAIN result.Invalid.m = RawKeySet
              /\ \A k \in RawKeySet : result.Invalid.m[k] = getParams[k]

\* Build returned for two well-formed parameters, both rejected
C8_Witness ==
    /\ pc = "done"
    /\ Cardinality(RawKeySet) >= 2
    /\ \A k \in RawKeySet : WellFormed(k) /\ ~Whitelisted(k)

----------------------------------------------------------------------------
(* C9 *)

\* C9: whenever Build succeeds, the number of predicates equals the number of
\* raw keys with a whitelisted column, and the bind values are the values of
\* those keys, concatenated in ascending order of raw key.
C9_EveryWhitelistedKeyContributes ==
    Succeeded =>
        LET keys == Ascending(WhitelistedKeys)
        IN  /\ Len(Predicates(result.Filter.SqlFilters)) = Len(keys)
            /\ result.Filter.PlaceholderValues
                  = Flatten([n \in 1..Len(keys) |-> getParams[keys[n]]])

----------------------------------------------------------------------------
(* C10 *)

InvalidKeys == {k \in RawKeySet : ~WellFormed(k)}

SmallestInvalidKey == CHOOSE k \in InvalidKeys : \A o \in InvalidKeys \ {k} : StringLess(k, o)

\* C10: the parameters are scanned in ascending order of raw key; the error
\* Build returns is that of the smallest invalid key, and the rejected
\* parameters returned with it are the entries of the keys, not in the
\* whitelist, that sort before that key.
C10_FirstFailure ==
    /\ pc \in {"loop", "buildQueryFilters", "done"} =>
          \A a, b \in 1..Len(pairs) : a < b => StringLess(pairs[a].Key, pairs[b].Key)
    /\ ScanFailed =>
          LET before == {k \in RejectedKeys : StringLess(k, SmallestInvalidKey)}
          IN  /\ InvalidKeys # {}
              /\ FailingKey = SmallestInvalidKey
              /\ result.Err
                    = splitParamName(SmallestInvalidKey, getParams[SmallestInvalidKey]).err
              /\ DOMAIN result.Invalid.m = before
              /\ \A k \in before : result.Invalid.m[k] = getParams[k]

\* Build failed on a map with two invalid keys that fail with different errors
C10_Witness ==
    /\ ScanFailed
    /\ Cardinality(InvalidKeys) >= 2
    /\ \E k \in InvalidKeys :
          splitParamName(k, getParams[k]).err # result.Err
====
